---- MODULE Spec2Model ----
(***************************************************************************)
(* Slot generation and booking ledger of the medical appointment scheduler *)
(* (backend/api/calendly_integration.py, backend/api/chat.py).             *)
(*                                                                         *)
(* A datetime without seconds is the number of minutes since 00:00 of day  *)
(* 0; the wall clock is a record [t, s] where s > 0 says that the clock is *)
(* some seconds past the minute t.  One call reads the clock once: the     *)
(* microseconds between the reads of datetime.now() in one call are not    *)
(* modelled.                                                               *)
(***************************************************************************)
EXTENDS Integers, Sequences, FiniteSets, TLC

VARIABLES
    booked_appointments,  \* the ledger: key -> occupancy record
    now,                  \* the wall clock
    confirmed,            \* the bookings answered with status "confirmed"
    last,                 \* the last response: operation, status, date of a query
    tasks,                \* the booking handlers of the requests in flight
    running               \* the handler that holds the event loop, or 0

vars == <<booked_appointments, now, confirmed, last, tasks, running>>

-----------------------------------------------------------------------------
(* Bounds of the model *)

\* dates are 0..MaxDay
MaxDay == 1
\* number of successful bookings in one run
MaxBookings == 2
\* booking ids draw their random numeral from IdBase..IdBase+NumIds-1
NumIds == 2
\* booking requests in flight at the same time
MaxTasks == 2
\* confirmation codes are drawn from NumCodes strings
NumCodes == 2

-----------------------------------------------------------------------------
(* Program constants *)

BUSINESS_HOURS == [start |-> 9 * 60 + 0, end |-> 17 * 60 + 0]

APPOINTMENT_TYPES ==
    [consultation |-> 30, followup |-> 15, physical |-> 45, specialist |-> 60]

\* timedelta(minutes=15): the step of the ledger's keys
Granule == 15

\* random.randint(1000, 9999): the smallest numeral
IdBase == 1000

-----------------------------------------------------------------------------
(* datetime *)

DayMinutes == 24 * 60

\* datetime.date()
DateOf(dt) == dt \div DayMinutes

\* datetime.time(), in minutes since midnight
TimeOf(dt) == dt % DayMinutes

\* datetime.combine(date, time)
Combine(date, time) == date * DayMinutes + time

\* strftime('%Y-%m-%d %H:%M'): the ledger's key
Key(dt) == <<DateOf(dt), TimeOf(dt) \div 60, TimeOf(dt) % 60>>

\* strftime('%H:%M'): the date is dropped
HM(dt) == <<TimeOf(dt) \div 60, TimeOf(dt) % 60>>

\* (variant: the comparison written <=)
BeforeOrAt(dt, clock) == dt <= clock.t

\* a datetime without seconds compared with the clock: dt < datetime.now()
Before(dt, clock) == dt < clock.t \/ (dt = clock.t /\ clock.s > 0)

\* a date string and a time string that strptime rejects (ValueError)
BadDate == -1
BadTime == -1

-----------------------------------------------------------------------------
(* generate_time_slots *)

\* now.replace(minute=..., second=0, microsecond=0), rounded on the minute field
RoundUp(clock) ==
    LET minute == TimeOf(clock.t) % 60
        minutes == IF minute % 15 # 0 THEN ((minute \div 15) + 1) * 15 ELSE minute
        hour == clock.t - minute
    IN  IF minutes = 60 THEN hour + 60 ELSE hour + minutes

\* (variant: the rounded time of the clock moves the first start on every date)
FirstStartAnyDate(date, clock) ==
    LET current_time == Combine(date, TimeOf(RoundUp(clock)))
    IN  IF TimeOf(current_time) < BUSINESS_HOURS.start
        THEN Combine(date, BUSINESS_HOURS.start)
        ELSE current_time

\* the first candidate start
FirstStart(date, clock) ==
    IF date = DateOf(clock.t)
    THEN LET current_time == RoundUp(clock)
         IN  IF TimeOf(current_time) < BUSINESS_HOURS.start
             THEN Combine(date, BUSINESS_HOURS.start)
             ELSE current_time
    ELSE Combine(date, BUSINESS_HOURS.start)

\* (variant: the key of the end of the slot is looked up)
SlotBookedAtEnd(current_time, duration, ledger) ==
    Key(current_time + duration) \in DOMAIN ledger

\* is_booked = slot_key in booked_appointments
SlotBooked(current_time, duration, ledger) == Key(current_time) \in DOMAIN ledger

\* (variant: the loop runs while the slot starts before the end of business hours)
RECURSIVE SlotLoopStartsBeforeEnd(_, _, _, _)
SlotLoopStartsBeforeEnd(current_time, end_time, duration, ledger) ==
    IF current_time < end_time
    THEN <<[start_time |-> HM(current_time),
            end_time |-> HM(current_time + duration),
            available |-> ~SlotBooked(current_time, duration, ledger)]>>
         \o SlotLoopStartsBeforeEnd(current_time + duration, end_time, duration, ledger)
    ELSE <<>>

RECURSIVE SlotLoop(_, _, _, _)
SlotLoop(current_time, end_time, duration, ledger) ==
    IF current_time + duration <= end_time
    THEN <<[start_time |-> HM(current_time),
            end_time |-> HM(current_time + duration),
            available |-> ~SlotBooked(current_time, duration, ledger)]>>
         \o SlotLoop(current_time + duration, end_time, duration, ledger)
    ELSE <<>>

\* (variant: no early return for a past date)
generate_time_slots_any_date(date_str, appointment_duration, clock, ledger) ==
    IF date_str = BadDate
    THEN [error |-> "InvalidInput", slots |-> <<>>]
    ELSE [error |-> "none",
          slots |-> SlotLoop(FirstStart(date_str, clock),
                             Combine(date_str, BUSINESS_HOURS.end),
                             appointment_duration, ledger)]

generate_time_slots(date_str, appointment_duration, clock, ledger) ==
    IF date_str = BadDate
    THEN [error |-> "InvalidInput", slots |-> <<>>]
    ELSE IF date_str < DateOf(clock.t)
    THEN [error |-> "none", slots |-> <<>>]
    ELSE [error |-> "none",
          slots |-> SlotLoop(FirstStart(date_str, clock),
                             Combine(date_str, BUSINESS_HOURS.end),
                             appointment_duration, ledger)]

-----------------------------------------------------------------------------
(* is_slot_available *)

\* (variant: only the key of the start of the window is tested)
CheckLoopFirstKey(check_time, end_dt, ledger) ==
    check_time < end_dt => Key(check_time) \notin DOMAIN ledger

RECURSIVE CheckLoop(_, _, _)
CheckLoop(check_time, end_dt, ledger) ==
    IF check_time < end_dt
    THEN IF Key(check_time) \in DOMAIN ledger
         THEN FALSE
         ELSE CheckLoop(check_time + Granule, end_dt, ledger)
    ELSE TRUE

is_slot_available(date, start_time, duration, ledger) ==
    LET start_dt == Combine(date, start_time)
    IN  CheckLoop(start_dt, start_dt + duration, ledger)

-----------------------------------------------------------------------------
(* book_appointment *)

\* (variant: the write loop runs up to and including the end of the window)
RECURSIVE WriteKeysThroughEnd(_, _)
WriteKeysThroughEnd(current_time, end_time) ==
    IF current_time <= end_time
    THEN {Key(current_time)} \cup WriteKeysThroughEnd(current_time + Granule, end_time)
    ELSE {}

\* the keys written by the loop of lines 154-161
RECURSIVE WriteKeys(_, _)
WriteKeys(current_time, end_time) ==
    IF current_time < end_time
    THEN {Key(current_time)} \cup WriteKeys(current_time + Granule, end_time)
    ELSE {}

\* generate_booking_id: the date stamp of the clock and a random numeral
generate_booking_id(clock, n) == <<"APPT", DateOf(clock.t), n>>

\* generate_confirmation_code: six random characters, the c-th string of the
\* alphabet's sixth power
generate_confirmation_code(c) == <<"CODE", c>>

\* (variant: the reason of the visit is not stored)
RecordWithoutReason(booking, booking_id) ==
    [booking_id |-> booking_id,
     patient |-> booking.patient,
     appointment_type |-> booking.appointment_type,
     reason |-> "none"]

\* the occupancy record of lines 155-160
Record(booking, booking_id) ==
    [booking_id |-> booking_id,
     patient |-> booking.patient,
     appointment_type |-> booking.appointment_type,
     reason |-> booking.reason]

\* the BookingResponse of lines 164-177
BookingResponse(booking, booking_id, confirmation_code) ==
    [booking_id |-> booking_id,
     confirmation_code |-> confirmation_code,
     start |-> Combine(booking.date, booking.start_time),
     duration |-> APPOINTMENT_TYPES[booking.appointment_type],
     patient |-> booking.patient,
     appointment_type |-> booking.appointment_type,
     reason |-> booking.reason]

Rejected(kind, ledger) == [status |-> kind, ledger |-> ledger]

\* the ledger after the write loop
WriteLedger(booking, start_dt, duration, booking_id, ledger) ==
    LET keys == WriteKeys(start_dt, start_dt + duration)
    IN  [k \in DOMAIN ledger \cup keys |->
            IF k \in keys THEN Record(booking, booking_id) ELSE ledger[k]]

\* (variant: the window is tested for availability before the start is compared
\* with the clock)
ValidateAvailabilityFirst(booking, clock, ledger) ==
    IF booking.date = BadDate \/ booking.start_time = BadTime
    THEN "InvalidInput"
    ELSE IF ~is_slot_available(booking.date, booking.start_time,
                               APPOINTMENT_TYPES[booking.appointment_type], ledger)
    THEN "SlotUnavailable"
    ELSE IF Before(Combine(booking.date, booking.start_time), clock)
    THEN "PastDateTime"
    ELSE "confirmed"

\* the checks of lines 134-145, in the code's order
Validate(booking, clock, ledger) ==
    IF booking.date = BadDate \/ booking.start_time = BadTime
    THEN "InvalidInput"
    ELSE IF Before(Combine(booking.date, booking.start_time), clock)
    THEN "PastDateTime"
    ELSE IF ~is_slot_available(booking.date, booking.start_time,
                               APPOINTMENT_TYPES[booking.appointment_type], ledger)
    THEN "SlotUnavailable"
    ELSE "confirmed"

\* (variant: the granules are written while they are checked, so a rejected
\* window leaves its free leading granules in the ledger)
RECURSIVE FreePrefix(_, _, _)
FreePrefix(check_time, end_dt, ledger) ==
    IF check_time < end_dt /\ Key(check_time) \notin DOMAIN ledger
    THEN {Key(check_time)} \cup FreePrefix(check_time + Granule, end_dt, ledger)
    ELSE {}

book_appointment_write_while_checking(booking, clock, ledger, n) ==
    IF booking.appointment_type \notin DOMAIN APPOINTMENT_TYPES
    THEN Rejected("InvalidAppointmentType", ledger)
    ELSE LET status == Validate(booking, clock, ledger)
             start_dt == Combine(booking.date, booking.start_time)
             duration == APPOINTMENT_TYPES[booking.appointment_type]
             booking_id == generate_booking_id(clock, n)
             keys == FreePrefix(start_dt, start_dt + duration, ledger)
         IN  IF status \in {"InvalidInput", "PastDateTime"}
             THEN Rejected(status, ledger)
             ELSE [status |-> status,
                   ledger |-> [k \in DOMAIN ledger \cup keys |->
                                  IF k \in keys THEN Record(booking, booking_id)
                                  ELSE ledger[k]]]

book_appointment(booking, clock, ledger, n) ==
    IF booking.appointment_type \notin DOMAIN APPOINTMENT_TYPES
    THEN Rejected("InvalidAppointmentType", ledger)
    ELSE LET status == Validate(booking, clock, ledger)
         IN  IF status # "confirmed"
             THEN Rejected(status, ledger)
             ELSE [status |-> "confirmed",
                   ledger |-> WriteLedger(booking,
                                  Combine(booking.date, booking.start_time),
                                  APPOINTMENT_TYPES[booking.appointment_type],
                                  generate_booking_id(clock, n), ledger)]

-----------------------------------------------------------------------------
(* book_appointment_endpoint: the status code of the response *)

\* the text of the ValueError of book_appointment, word by word
ErrorMessage(kind) ==
    CASE kind = "InvalidInput" -> <<"Invalid", "date", "or", "time", "format">>
      [] kind = "PastDateTime" ->
            <<"Cannot", "book", "appointments", "in", "the", "past">>
      [] kind = "SlotUnavailable" ->
            <<"The", "selected", "time", "slot", "is", "no", "longer", "available">>

\* phrase in message
Contains(message, phrase) ==
    \E i \in 1 .. Len(message) - Len(phrase) + 1 :
        SubSeq(message, i, i + Len(phrase) - 1) = phrase

\* 200 for a returned BookingResponse, 400 for an unknown type, and for a
\* ValueError 409 if its text says "no longer available" and 400 otherwise
status_code(status) ==
    IF status = "confirmed"
    THEN 200
    ELSE IF status = "InvalidAppointmentType"
    THEN 400
    ELSE IF Contains(ErrorMessage(status), <<"no", "longer", "available">>)
    THEN 409
    ELSE 400

-----------------------------------------------------------------------------
(* Inputs *)

Dates == 0 .. MaxDay

Types == DOMAIN APPOINTMENT_TYPES

Durations == {APPOINTMENT_TYPES[t] : t \in Types}

\* start times of the requests: 10:00, 10:05, 10:15
StartTimes == {600, 605, 615}

Patients == {"ann"}

IdNumerals == IdBase .. (IdBase + NumIds - 1)

CodeNumerals == 1 .. NumCodes

\* the code drawn in the runs that compare no codes
OneCode == {1}

Requests ==
    [appointment_type : Types \cup {"invalid"},
     date : Dates \cup {BadDate},
     start_time : StartTimes \cup {BadTime},
     patient : Patients,
     reason : {"none"}]

\* instants of the clock: 10:00:00, 10:00:30 and 10:05:00 of day 0, 08:00:00 of
\* every later day
ClockSamples ==
    {[t |-> Combine(0, 600), s |-> 0], [t |-> Combine(0, 600), s |-> 1],
     [t |-> Combine(0, 605), s |-> 0]}
    \cup {[t |-> Combine(d, 480), s |-> 0] : d \in 1 .. MaxDay}

Later(c1, c2) == c1.t < c2.t \/ (c1.t = c2.t /\ c1.s < c2.s)

NoOp == [op |-> "none", status |-> "none", http |-> 0, date |-> BadDate]

-----------------------------------------------------------------------------
(* The program *)

Init ==
    /\ booked_appointments = <<>>
    /\ now \in ClockSamples
    /\ confirmed = {}
    /\ last = NoOp
    /\ tasks = <<>>
    /\ running = 0

\* POST /api/calendly/book
Book(booking, n, c) ==
    LET r == book_appointment(booking, now, booked_appointments, n)
    IN  /\ Cardinality(confirmed) < MaxBookings
        /\ booked_appointments' = r.ledger
        /\ confirmed' =
              IF r.status = "confirmed"
              THEN confirmed \cup
                     {BookingResponse(booking, generate_booking_id(now, n),
                                      generate_confirmation_code(c))}
              ELSE confirmed
        /\ last' = [op |-> "book", status |-> r.status,
                    http |-> status_code(r.status), date |-> BadDate]
        /\ UNCHANGED <<now, tasks, running>>

\* (variant: the handler keeps the slots it returns in the ledger)
AvailabilityStoresSlots(date, appointment_type) ==
    LET r == generate_time_slots(date, APPOINTMENT_TYPES[appointment_type],
                                 now, booked_appointments)
        keys == {<<date, r.slots[i].start_time[1], r.slots[i].start_time[2]>> :
                     i \in 1 .. Len(r.slots)}
    IN  /\ last' = [op |-> "slots", status |-> r.error,
                    http |-> IF r.error = "none" THEN 200 ELSE 400, date |-> date]
        /\ booked_appointments' =
              [k \in DOMAIN booked_appointments \cup keys |->
                  IF k \in DOMAIN booked_appointments THEN booked_appointments[k]
                  ELSE [booking_id |-> <<>>, patient |-> "none",
                        appointment_type |-> appointment_type, reason |-> "slot"]]
        /\ UNCHANGED <<now, confirmed, tasks, running>>

\* GET /api/calendly/availability
Availability(date, appointment_type) ==
    LET r == generate_time_slots(date, APPOINTMENT_TYPES[appointment_type],
                                 now, booked_appointments)
    IN  /\ last' = [op |-> "slots", status |-> r.error,
                    http |-> IF r.error = "none" THEN 200 ELSE 400, date |-> date]
        /\ UNCHANGED <<booked_appointments, now, confirmed, tasks, running>>

\* the wall clock advances
Tick(clock) ==
    /\ Later(now, clock)
    /\ now' = clock
    /\ UNCHANGED <<booked_appointments, confirmed, last, tasks, running>>

Next ==
    \/ \E booking \in Requests, n \in IdNumerals, c \in OneCode :
          Book(booking, n, c)
    \/ \E date \in Dates \cup {BadDate}, t \in Types : Availability(date, t)
    \/ \E clock \in ClockSamples : Tick(clock)

Spec == Init /\ [][Next]_vars

-----------------------------------------------------------------------------
(* The slot generator at every instant of a day: the process starts at any     *)
(* minute of day 0, on the minute or some seconds past it, and the clock runs. *)

ClockInstants == {[t |-> Combine(0, m), s |-> s] : m \in 0 .. (DayMinutes - 1), s \in {0, 1}}

InitClock ==
    /\ booked_appointments = <<>>
    /\ now \in ClockInstants
    /\ confirmed = {}
    /\ last = NoOp
    /\ tasks = <<>>
    /\ running = 0

\* the next instant of the clock
Successor(clock) == IF clock.s = 0 THEN [clock EXCEPT !.s = 1] ELSE [t |-> clock.t + 1, s |-> 0]

NextClock ==
    \/ \E date \in Dates \cup {BadDate}, t \in Types : Availability(date, t)
    \/ Successor(now) \in ClockInstants /\ Tick(Successor(now))

SpecClock == InitClock /\ [][NextClock]_vars

-----------------------------------------------------------------------------
(* The records of the bookings: requests for day 1 at each start time with two *)
(* patients and two reasons, every booking id and confirmation code drawn.     *)

RecordPatients == {"ann", "bob"}

RecordReasons == {"none", "checkup"}

RecordRequests ==
    [appointment_type : Types,
     date : {1},
     start_time : StartTimes,
     patient : RecordPatients,
     reason : RecordReasons]

NextRecords ==
    \/ \E booking \in RecordRequests, n \in IdNumerals, c \in CodeNumerals :
          Book(booking, n, c)
    \/ \E clock \in ClockSamples : Tick(clock)

SpecRecords == Init /\ [][NextRecords]_vars

-----------------------------------------------------------------------------
(* Reserves around the clock: requests for day 1 that start before, inside,    *)
(* at the end of and after the business hours.                                 *)

\* 08:30, 10:00, 16:30, 20:00
HoursStartTimes == {510, 600, 990, 1200}

HoursRequests ==
    [appointment_type : Types,
     date : {1},
     start_time : HoursStartTimes,
     patient : Patients,
     reason : {"none"}]

NextHours ==
    \/ \E booking \in HoursRequests, n \in IdNumerals, c \in OneCode :
          Book(booking, n, c)
    \/ \E date \in Dates, t \in Types : Availability(date, t)
    \/ \E clock \in ClockSamples : Tick(clock)

SpecHours == Init /\ [][NextHours]_vars

-----------------------------------------------------------------------------
(* Requests in flight.  Each POST /api/calendly/book is a task of the event    *)
(* loop that runs book_appointment_endpoint line by line: the checks, then one *)
(* ledger write for each iteration of the loop, then the response.  The        *)
(* handler is an async function that never awaits, so the event loop runs a    *)
(* task it has started to its end before it starts another one.               *)

\* requests for day 1 with a catalog type, and one with an unknown type
FlightRequests ==
    {b \in Requests : /\ b.date = 1 /\ b.start_time # BadTime
                      /\ (b.appointment_type = "invalid" => b.start_time = 600)}

\* written: the keys the task has assigned; peers: the tasks that were in flight
\* when the request arrived
NewTask(booking) ==
    [booking |-> booking, pc |-> "queued", cursor |-> 0, end_time |-> 0,
     booking_id |-> <<>>, confirmation_code |-> <<>>, status |-> "none",
     written |-> {},
     peers |-> {j \in DOMAIN tasks : tasks[j].pc # "done"}]

\* the request arrives
Submit(booking) ==
    /\ Len(tasks) < MaxTasks
    /\ tasks' = Append(tasks, NewTask(booking))
    /\ UNCHANGED <<booked_appointments, now, confirmed, last, running>>

\* (variant: a handler that yields the event loop between its steps)
RunnableAnyTime(i) == TRUE

\* the event loop gives the next step to task i
Runnable(i) == running \in {0, i}

\* chat.py 66-70 and book_appointment up to the generated booking id
Check(i, n, c) ==
    LET b == tasks[i].booking
        status == IF b.appointment_type \notin DOMAIN APPOINTMENT_TYPES
                  THEN "InvalidAppointmentType"
                  ELSE Validate(b, now, booked_appointments)
    IN  /\ tasks[i].pc = "queued"
        /\ Runnable(i)
        /\ IF status = "confirmed"
           THEN /\ tasks' = [tasks EXCEPT ![i] =
                                [@ EXCEPT !.pc = "write",
                                          !.cursor = Combine(b.date, b.start_time),
                                          !.end_time = Combine(b.date, b.start_time)
                                                          + APPOINTMENT_TYPES[b.appointment_type],
                                          !.booking_id = generate_booking_id(now, n),
                                          !.confirmation_code =
                                              generate_confirmation_code(c)]]
                /\ running' = i
                /\ UNCHANGED last
           ELSE /\ tasks' = [tasks EXCEPT ![i] = [@ EXCEPT !.pc = "done", !.status = status]]
                /\ running' = 0
                /\ last' = [op |-> "book", status |-> status,
                            http |-> status_code(status), date |-> BadDate]
        /\ UNCHANGED <<booked_appointments, now, confirmed>>

\* one iteration of the write loop
Write(i) ==
    LET task == tasks[i]
        key == Key(task.cursor)
    IN  /\ task.pc = "write"
        /\ Runnable(i)
        /\ booked_appointments' =
              [k \in DOMAIN booked_appointments \cup {key} |->
                  IF k = key THEN Record(task.booking, task.booking_id)
                  ELSE booked_appointments[k]]
        /\ tasks' = [tasks EXCEPT ![i] =
                        [@ EXCEPT !.written = @ \cup {key},
                                  !.cursor = task.cursor + Granule,
                                  !.pc = IF task.cursor + Granule < task.end_time
                                         THEN "write" ELSE "respond"]]
        /\ running' = i
        /\ UNCHANGED <<now, confirmed, last>>

\* the BookingResponse is returned
Respond(i) ==
    LET task == tasks[i]
        b == task.booking
    IN  /\ task.pc = "respond"
        /\ Runnable(i)
        /\ tasks' = [tasks EXCEPT ![i] = [@ EXCEPT !.pc = "done", !.status = "confirmed"]]
        /\ confirmed' = confirmed \cup
                           {BookingResponse(b, task.booking_id,
                                            task.confirmation_code)}
        /\ last' = [op |-> "book", status |-> "confirmed",
                    http |-> status_code("confirmed"), date |-> BadDate]
        /\ running' = 0
        /\ UNCHANGED <<booked_appointments, now>>

\* GET /api/calendly/availability, an async handler too
Query(date, appointment_type) ==
    /\ Runnable(0)
    /\ Availability(date, appointment_type)

NextFlight ==
    \/ \E booking \in FlightRequests : Submit(booking)
    \/ \E i \in DOMAIN tasks, n \in IdNumerals, c \in OneCode : Check(i, n, c)
    \/ \E i \in DOMAIN tasks : Write(i)
    \/ \E i \in DOMAIN tasks : Respond(i)
    \/ \E date \in Dates \cup {BadDate}, t \in Types : Query(date, t)
    \/ \E clock \in ClockSamples : Tick(clock)

SpecFlight == Init /\ [][NextFlight]_vars

-----------------------------------------------------------------------------
(* The reset of the tests: the fixture clear_bookings empties the ledger       *)
(* between two tests, when no request is in flight.                            *)

Reset ==
    /\ \A i \in DOMAIN tasks : tasks[i].pc = "done"
    /\ booked_appointments # <<>>
    /\ booked_appointments' = <<>>
    /\ UNCHANGED <<now, confirmed, last, tasks, running>>

NextReset == NextFlight \/ Reset

SpecReset == Init /\ [][NextReset]_vars

-----------------------------------------------------------------------------
(* Vocabulary of the properties *)

\* "HH:MM" read back as minutes since midnight
Minutes(hm) == hm[1] * 60 + hm[2]

\* the half-open windows [s1, s1 + d1) and [s2, s2 + d2) intersect
Overlap(s1, d1, s2, d2) == s1 < s2 + d2 /\ s2 < s1 + d1

Ledger == booked_appointments

Today == DateOf(now.t)

\* the slots of a successful availability query in the current state
SlotsOf(date, duration) == generate_time_slots(date, duration, now, Ledger).slots

SlotSet(date, duration) ==
    LET slots == SlotsOf(date, duration) IN {slots[i] : i \in 1 .. Len(slots)}

\* well-formed requests with a catalog type
ValidRequests ==
    {b \in Requests : /\ b.appointment_type \in Types
                      /\ b.date # BadDate
                      /\ b.start_time # BadTime}

StartOf(b) == Combine(b.date, b.start_time)

DurationOf(b) == APPOINTMENT_TYPES[b.appointment_type]

\* the reserve of a slot that an availability query returned
SlotRequest(t, date, slot) ==
    [appointment_type |-> t, date |-> date, start_time |-> Minutes(slot.start_time),
     patient |-> "ann", reason |-> "none"]

-----------------------------------------------------------------------------
(* Properties *)

\* C1: no two successful bookings have overlapping windows [start, start+duration),
\* whatever their types and start times (aligned to 15 minutes or not).
C1_NoOverlappingBookings ==
    \A b1 \in confirmed, b2 \in confirmed :
        b1 # b2 => ~Overlap(b1.start, b1.duration, b2.start, b2.duration)

Succeeded(i) == tasks[i].pc = "done" /\ tasks[i].status = "confirmed"

\* tasks i and j were in flight at the same time
Concurrent(i, j) == i \in tasks[j].peers \/ j \in tasks[i].peers

\* the requests of tasks i and j are for overlapping ranges
OverlappingTasks(i, j) ==
    /\ tasks[i].booking.appointment_type \in Types
    /\ tasks[j].booking.appointment_type \in Types
    /\ Overlap(StartOf(tasks[i].booking), DurationOf(tasks[i].booking),
               StartOf(tasks[j].booking), DurationOf(tasks[j].booking))

\* C2: of two reserve calls in flight together for overlapping ranges at most one
\* returns success, and no granule key is written by both.
C2_OverlappingCallsExclude ==
    \A i \in DOMAIN tasks, j \in DOMAIN tasks :
        (i # j /\ Concurrent(i, j) /\ OverlappingTasks(i, j))
        => /\ ~(Succeeded(i) /\ Succeeded(j))
           /\ tasks[i].written \cap tasks[j].written = {}

\* the second half alone: no granule key is written by two calls in flight together
NoKeyWrittenTwice ==
    \A i \in DOMAIN tasks, j \in DOMAIN tasks :
        (i # j /\ Concurrent(i, j)) => tasks[i].written \cap tasks[j].written = {}

\* C3: after a successful reserve, every slot that generate_slots returns for the
\* date of the booking, for every catalog duration, and whose window overlaps the
\* booked window reports available = false.
C3_BookedSlotsUnavailable ==
    (last.op = "slots" /\ last.status = "none") =>
        \A b \in confirmed, d \in Durations :
            DateOf(b.start) = last.date =>
                \A slot \in SlotSet(last.date, d) :
                    Overlap(Combine(last.date, Minutes(slot.start_time)), d,
                            b.start, b.duration)
                    => ~slot.available

\* C4: for a future date, every slot reported available = true for a type can be
\* reserved at once with that type, date and start time.
C4_AvailableSlotCanBeReserved ==
    \A date \in Dates, t \in Types :
        (last.op = "slots" /\ last.date = date /\ date > Today) =>
            \A slot \in SlotSet(date, APPOINTMENT_TYPES[t]) :
                slot.available =>
                    \A n \in IdNumerals :
                        book_appointment(SlotRequest(t, date, slot), now, Ledger, n).status
                            = "confirmed"

\* C5: a reserve that fails leaves the ledger exactly as it was.
C5_FailedReserveWritesNothing ==
    [][(last'.op = "book" /\ last'.status # "confirmed")
          => booked_appointments' = booked_appointments]_vars

\* a reserve was rejected while the ledger held a booking
C5_Witness ==
    /\ last.op = "book"
    /\ last.status = "SlotUnavailable"
    /\ Ledger # <<>>

\* C6: a reserve (well-formed, catalog type) whose start is strictly earlier than the
\* clock is rejected with PastDateTime and writes nothing, whatever the ledger
\* holds; a reserve whose start equals the clock is not rejected as past.
C6_PastRejectedStrictly ==
    \A b \in ValidRequests, n \in IdNumerals :
        LET r == book_appointment(b, now, Ledger, n)
        IN  /\ Before(StartOf(b), now)
                => r.status = "PastDateTime" /\ r.ledger = Ledger
            /\ (StartOf(b) = now.t /\ now.s = 0) => r.status # "PastDateTime"

\* a past reserve for an occupied window was rejected, in a state where a reserve
\* at the very instant of the clock is accepted
C6_Witness ==
    /\ last.op = "book"
    /\ last.status = "PastDateTime"
    /\ \E b \in ValidRequests :
          /\ Before(StartOf(b), now)
          /\ ~is_slot_available(b.date, b.start_time, DurationOf(b), Ledger)
    /\ \E b \in ValidRequests :
          /\ StartOf(b) = now.t /\ now.s = 0
          /\ book_appointment(b, now, Ledger, IdBase).status = "confirmed"

\* C7: for every date strictly before the current date, generate_slots returns the
\* empty sequence without error, for every catalog duration and every ledger.
C7_PastDateNoSlots ==
    \A date \in Dates, d \in Durations :
        date < Today =>
            generate_time_slots(date, d, now, Ledger) = [error |-> "none", slots |-> <<>>]

\* a query for a past date on which the ledger holds bookings
C7_Witness ==
    /\ last.op = "slots"
    /\ last.status = "none"
    /\ last.date < Today
    /\ \E k \in DOMAIN Ledger : k[1] = last.date

\* the clock rounded up to the next multiple of 15 minutes; an instant exactly
\* on a multiple is not advanced
CeilQuarter(clock) ==
    IF clock.t % 15 = 0 /\ clock.s = 0 THEN clock.t ELSE ((clock.t \div 15) + 1) * 15

Max(a, b) == IF a >= b THEN a ELSE b

\* C8: for every catalog duration and every date >= today, every returned slot
\* starts at or after the start of business hours, ends at or before their end,
\* has end = start + duration, and starts exactly duration minutes after the
\* slot before it (so the slots ascend).
C8_SlotsInsideBusinessHours ==
    \A date \in Dates, d \in Durations :
        date >= Today =>
            LET slots == SlotsOf(date, d)
            IN  \A i \in 1 .. Len(slots) :
                    /\ Minutes(slots[i].start_time) >= BUSINESS_HOURS.start
                    /\ Minutes(slots[i].start_time) + d <= BUSINESS_HOURS.end
                    /\ Minutes(slots[i].end_time) = Minutes(slots[i].start_time) + d
                    /\ i > 1 => Minutes(slots[i].start_time)
                                   = Minutes(slots[i - 1].start_time) + d

\* a query for today in the middle of the day, off the 15-minute grid, that
\* returned several slots
C8_Witness ==
    /\ last.op = "slots"
    /\ last.date = Today
    /\ now.t % 15 # 0
    /\ Len(SlotsOf(Today, APPOINTMENT_TYPES.physical)) > 2
    /\ Len(SlotsOf(Today, APPOINTMENT_TYPES.physical))
          < Len(SlotsOf(Today + 1, APPOINTMENT_TYPES.physical))

\* C9: when the date is today and the clock is at or after the end of business
\* hours (17:00 up to 23:59), generate_slots returns the empty sequence.
C9_NoSlotsAfterHours ==
    \A d \in Durations :
        (last.op = "slots" /\ last.date = Today /\ TimeOf(now.t) >= BUSINESS_HOURS.end)
            => SlotsOf(Today, d) = <<>>

\* C10: when the date is today no returned slot starts before the clock, and the
\* first returned slot starts at the later of the start of business hours and
\* the clock rounded up to the next 15-minute boundary.
C10_TodayStartsAtRoundedNow ==
    \A d \in Durations :
        LET slots == SlotsOf(Today, d)
        IN  (last.op = "slots" /\ last.date = Today) =>
            /\ \A i \in 1 .. Len(slots) :
                  ~Before(Combine(Today, Minutes(slots[i].start_time)), now)
            /\ slots # <<>> =>
                  Combine(Today, Minutes(slots[1].start_time))
                      = Max(Combine(Today, BUSINESS_HOURS.start), CeilQuarter(now))

\* C11: booking ids and confirmation codes are never reused: no two distinct
\* bookings carry the same booking id, and no two carry the same confirmation
\* code.
C11_IdsNeverReused ==
    \A b1, b2 \in confirmed :
        b1 # b2 => /\ b1.booking_id # b2.booking_id
                   /\ b1.confirmation_code # b2.confirmation_code

\* the granule keys of the window of `duration` minutes that starts at `start`
GranulesOf(start, duration) ==
    {Key(start + Granule * k) : k \in 0 .. (duration \div Granule) - 1}

\* the ledger holds none or all of the granules of the booking of task i
WholeBatch(i) ==
    LET b == tasks[i].booking
    IN  \/ tasks[i].written = {}
        \/ /\ b.appointment_type \in Types
           /\ tasks[i].written = GranulesOf(StartOf(b), DurationOf(b))

\* a step that reads the ledger: an availability query that is answered, or
\* the is_slot_available call of a handler that starts
ReadStep ==
    \/ last'.op = "slots" /\ last' # last
    \/ \E j \in DOMAIN tasks : tasks[j].pc = "queued" /\ tasks'[j].pc # "queued"

\* C12: an availability query (generate_time_slots or is_slot_available) that
\* runs while a reserve is in flight never reads the ledger in the middle of the
\* reserve's write loop: it sees none or all of the granules of that booking.
C12_ReadersSeeWholeBatches ==
    [][ReadStep => \A i \in DOMAIN tasks : WholeBatch(i)]_vars

\* a query for day 1 was answered while one request is waiting and another has
\* been confirmed
C12_Witness ==
    /\ last.op = "slots" /\ last.date = 1
    /\ \E i, j \in DOMAIN tasks :
          /\ tasks[i].pc = "queued"
          /\ tasks[j].status = "confirmed"
          /\ i \in tasks[j].peers \/ j \in tasks[i].peers

\* the window of request b intersects the window of a confirmed booking
OverlapsBooking(b) ==
    \E c \in confirmed : Overlap(StartOf(b), DurationOf(b), c.start, c.duration)

\* (the mapping alone: the status code of every reserve is the one of the
\* outcome that book_appointment reports)
KindsMapToStatus ==
    \A b \in Requests, n \in IdNumerals :
        LET r == book_appointment(b, now, Ledger, n)
        IN  status_code(r.status) =
               CASE r.status = "confirmed" -> 200
                 [] r.status = "SlotUnavailable" -> 409
                 [] OTHER -> 400

\* C13: at the HTTP boundary a reserve with an unknown type, a malformed date or
\* time, or a start in the past is answered 400; a reserve for a window that
\* overlaps an existing reservation is answered 409; and 200 is answered only
\* when the booking was written to the ledger.
C13_HttpStatusOfReserve ==
    \A b \in Requests, n \in IdNumerals :
        LET r == book_appointment(b, now, Ledger, n)
            http == status_code(r.status)
        IN  IF b.appointment_type \notin Types
            THEN http = 400
            ELSE IF b.date = BadDate \/ b.start_time = BadTime
            THEN http = 400
            ELSE IF Before(StartOf(b), now)
            THEN http = 400
            ELSE /\ OverlapsBooking(b) => http = 409
                 /\ http = 200 =>
                       \A k \in GranulesOf(StartOf(b), DurationOf(b)) :
                           /\ k \in DOMAIN r.ledger
                           /\ r.ledger[k] = Record(b, generate_booking_id(now, n))

\* the answer to a query for `date` and `duration` is the same after the step
SameOutput(date, duration) ==
    generate_time_slots(date, duration, now', booked_appointments')
        = generate_time_slots(date, duration, now, booked_appointments)

FullDay(d) ==
    [i \in 1 .. (480 \div d) |->
        [start_time |-> <<(540 + (i - 1) * d) \div 60, (540 + (i - 1) * d) % 60>>,
         end_time |-> <<(540 + i * d) \div 60, (540 + i * d) % 60>>,
         available |-> TRUE]]

\* C15: for a future date with an empty ledger and a catalog duration d,
\* generate_time_slots returns exactly floor(480/d) slots, the first starting at
\* 09:00, each starting d minutes after the previous one, all available (for 30
\* minutes: 16 slots, from 09:00-09:30 to 16:30-17:00).
C15_EmptyFutureDay ==
    \A date \in Dates, d \in Durations :
        (date > Today /\ Ledger = <<>>) =>
            /\ generate_time_slots(date, d, now, Ledger)
                  = [error |-> "none", slots |-> FullDay(d)]
            /\ d = 30 =>
                  /\ Len(SlotsOf(date, d)) = 16
                  /\ SlotsOf(date, d)[1] = [start_time |-> <<9, 0>>,
                                            end_time |-> <<9, 30>>, available |-> TRUE]
                  /\ SlotsOf(date, d)[16] = [start_time |-> <<16, 30>>,
                                             end_time |-> <<17, 0>>, available |-> TRUE]

\* a query for tomorrow answered from the empty ledger in the afternoon
C15_Witness ==
    /\ last.op = "slots" /\ last.status = "none"
    /\ last.date = Today + 1
    /\ Ledger = <<>>
    /\ TimeOf(now.t) > 14 * 60
    /\ Len(SlotsOf(last.date, 45)) = 10

\* generate_time_slots offers the start of booking b for b's duration
Offered(b) ==
    \E slot \in SlotSet(DateOf(b.start), b.duration) :
        Minutes(slot.start_time) = TimeOf(b.start)

\* C16: starting from an empty ledger, after reserving one slot of type T on a
\* future date at a start time that generate_time_slots offers for T, the query
\* for the same date and type reports exactly that slot as unavailable and every
\* other slot as available.
C16_OnlyReservedSlotUnavailable ==
    \A b \in confirmed :
        (confirmed = {b} /\ DateOf(b.start) > Today /\ Offered(b)) =>
            \A slot \in SlotSet(DateOf(b.start), b.duration) :
                slot.available <=> Minutes(slot.start_time) # TimeOf(b.start)

\* the one booking is a consultation at 10:00 of tomorrow, and tomorrow was
\* queried after it
C16_Witness ==
    /\ last.op = "slots" /\ last.status = "none"
    /\ last.date = Today + 1
    /\ \E b \in confirmed :
          /\ confirmed = {b}
          /\ b.start = Combine(last.date, 600)
          /\ b.appointment_type = "consultation"
          /\ Offered(b)
          /\ Len(SlotsOf(last.date, b.duration)) = 16

\* C17: in every reachable ledger state and for every slot generate_time_slots
\* returns, the slot is available if and only if none of the 15-minute granules
\* of [start, start + duration) is occupied, that is, available equals
\* is_slot_available(date, start, duration); a partly occupied slot is
\* unavailable.
C17_FlagEqualsRangeFree ==
    \A date \in Dates, t \in Types :
        (last.op = "slots" /\ last.date = date) =>
            \A slot \in SlotSet(date, APPOINTMENT_TYPES[t]) :
                slot.available
                    = is_slot_available(date, Minutes(slot.start_time),
                                        APPOINTMENT_TYPES[t], Ledger)

\* the granules of booking b: the consecutive quarter hours from its start
Granules(b) == GranulesOf(b.start, b.duration)

\* C18: in every state reachable by reserve calls from the empty ledger, a
\* granule key is present if and only if it is one of the granules that the
\* range [start, start + duration) of some successful booking covers, and each
\* present key records the booking id of exactly that booking.
C18_LedgerInvariant ==
    /\ DOMAIN Ledger = UNION {Granules(b) : b \in confirmed}
    /\ \A k \in DOMAIN Ledger :
          \E b \in confirmed :
              /\ k \in Granules(b)
              /\ \A c \in confirmed : k \in Granules(c) => c = b
              /\ Ledger[k].booking_id = b.booking_id

\* two bookings whose windows interleave, with different booking ids
C18_Witness ==
    \E b, c \in confirmed :
        /\ b.start < c.start /\ c.start < b.start + b.duration
        /\ b.booking_id # c.booking_id
        /\ Cardinality(DOMAIN Ledger) = 4

\* the booking confirmed by the step
Booked == CHOOSE b \in confirmed' \ confirmed : TRUE

\* C19: a successful reserve of duration d at start s writes exactly d/15
\* occupancy records, with the keys s, s+15, ..., s+d-15, all carrying the same
\* booking id, appointment type, patient and reason, and leaves every other
\* ledger entry unchanged.
C19_ReserveWritesItsGranules ==
    [][confirmed' # confirmed =>
          LET new == DOMAIN booked_appointments' \ DOMAIN booked_appointments
          IN  /\ new = {Key(Booked.start + Granule * k) :
                           k \in 0 .. (Booked.duration \div Granule) - 1}
              /\ Cardinality(new) = Booked.duration \div Granule
              /\ \A k \in new :
                    booked_appointments'[k] =
                        [booking_id |-> Booked.booking_id,
                         patient |-> Booked.patient,
                         appointment_type |-> Booked.appointment_type,
                         reason |-> Booked.reason]
              /\ \A k \in DOMAIN booked_appointments :
                    /\ k \in DOMAIN booked_appointments'
                    /\ booked_appointments'[k] = booked_appointments[k]]_vars

\* a specialist visit of one hour, booked for a second patient with a reason
\* after another booking
C19_Witness ==
    \E b, c \in confirmed :
        /\ b # c
        /\ b.appointment_type = "specialist"
        /\ b.patient = "bob" /\ b.reason = "checkup"
        /\ c.patient = "ann"
        /\ \A k \in Granules(b) :
              k \in DOMAIN Ledger /\ Ledger[k].booking_id = b.booking_id

\* every entry of the ledger is still there after the step, with its record
EntriesKept ==
    \A k \in DOMAIN booked_appointments :
        /\ k \in DOMAIN booked_appointments'
        /\ booked_appointments'[k] = booked_appointments[k]

\* C20: ledger entries are write-once: once a key is present, no later
\* generate_time_slots, is_slot_available or reserve call (successful or failed,
\* one after the other or in flight together) removes it or changes its record;
\* only the explicit reset clears the ledger.
C20_WriteOnce == [][Reset \/ EntriesKept]_vars

\* a reserve was confirmed, a second one that arrived while the first was in
\* flight was rejected, a query was answered, and the keys of the first are in
\* the ledger with its booking id
C20_Witness ==
    /\ last.op = "slots"
    /\ \E i, j \in DOMAIN tasks :
          /\ tasks[i].status = "confirmed"
          /\ tasks[j].status = "SlotUnavailable"
          /\ i \in tasks[j].peers
          /\ \A k \in tasks[i].written :
                k \in DOMAIN Ledger /\ Ledger[k].booking_id = tasks[i].booking_id

\* the instant that a ledger key names
KeyTime(k) == Combine(k[1], k[2] * 60 + k[3])

\* the direct test: no occupied granule [key, key + 15) intersects the window
RangeIntersectsNone(date, start_time, duration, ledger) ==
    \A k \in DOMAIN ledger :
        ~Overlap(Combine(date, start_time), duration, KeyTime(k), Granule)

\* C21: the loop of is_slot_available over fixed 15-minute steps from start_time
\* gives the same result as a direct range-intersection test of
\* [start, start + duration) against the occupied granules (each a 15-minute
\* interval), for every ledger reachable by reserves and every start time,
\* aligned to a quarter hour or not.
C21_LoopEqualsRangeIntersection ==
    \A date \in Dates, start_time \in StartTimes, d \in Durations :
        is_slot_available(date, start_time, d, Ledger)
            = RangeIntersectsNone(date, start_time, d, Ledger)

\* C22: generate_time_slots and is_slot_available are read-only: for every
\* input, past dates and malformed dates included, the ledger after the call
\* equals the ledger before it, and no slot is stored.
C22_ReadsChangeNothing ==
    [][ReadStep => /\ booked_appointments' = booked_appointments
                   /\ confirmed' = confirmed
                   /\ now' = now]_vars

\* a query with a malformed date was answered InvalidInput from a ledger with a
\* booking, after is_slot_available had refused another window
C22_Witness ==
    /\ last.op = "slots" /\ last.status = "InvalidInput"
    /\ Ledger # <<>>
    /\ \E i \in DOMAIN tasks : tasks[i].status = "SlotUnavailable"

\* C23: every slot that generate_time_slots reports as unavailable cannot be
\* reserved: a reserve for the same date, start time and duration is rejected
\* with SlotUnavailable (HTTP 409) in every reachable ledger state where the
\* start is not in the past.
C23_UnavailableSlotIsRefused ==
    \A date \in Dates, t \in Types :
        \A slot \in SlotSet(date, APPOINTMENT_TYPES[t]) :
            (~slot.available
               /\ ~Before(Combine(date, Minutes(slot.start_time)), now)) =>
                \A n \in IdNumerals :
                    LET r == book_appointment(SlotRequest(t, date, slot), now, Ledger, n)
                    IN  /\ r.status = "SlotUnavailable"
                        /\ status_code(r.status) = 409
                        /\ r.ledger = Ledger

\* a reserve was refused as unavailable in a state where a later date has a
\* slot reported unavailable
C23_Witness ==
    /\ last.op = "book" /\ last.status = "SlotUnavailable" /\ last.http = 409
    /\ \E date \in Dates, t \in Types :
          \E slot \in SlotSet(date, APPOINTMENT_TYPES[t]) :
              /\ ~slot.available
              /\ ~Before(Combine(date, Minutes(slot.start_time)), now)
              /\ date > Today

\* C24: every successful reservation lies inside business hours: in every
\* reachable ledger state each occupied granule starts at or after 09:00 and
\* ends at or before 17:00 of its date, so that reserve accepts only windows
\* that generate_time_slots could offer.
C24_BookingsInsideBusinessHours ==
    /\ \A k \in DOMAIN Ledger :
          /\ k[2] * 60 + k[3] >= BUSINESS_HOURS.start
          /\ k[2] * 60 + k[3] + Granule <= BUSINESS_HOURS.end
    /\ \A b \in confirmed :
          /\ TimeOf(b.start) >= BUSINESS_HOURS.start
          /\ TimeOf(b.start) + b.duration <= BUSINESS_HOURS.end

\* the start of request b is in the past and its window is not free
PastAndTaken(b) ==
    /\ Before(StartOf(b), now)
    /\ ~is_slot_available(b.date, b.start_time, DurationOf(b), Ledger)

\* C25: reserve checks its preconditions in a fixed order: a request whose start
\* is in the past is rejected with PastDateTime (HTTP 400) even when its range
\* also overlaps an existing reservation, so SlotUnavailable (409) is returned
\* only for requests that are not in the past.
C25_PastCheckedBeforeAvailability ==
    \A b \in ValidRequests, n \in IdNumerals :
        LET r == book_appointment(b, now, Ledger, n)
        IN  /\ (PastAndTaken(b) \/ (Before(StartOf(b), now) /\ OverlapsBooking(b)))
                  => r.status = "PastDateTime" /\ status_code(r.status) = 400
            /\ (r.status = "SlotUnavailable" \/ status_code(r.status) = 409)
                  => ~Before(StartOf(b), now)

\* a reserve was rejected as past (400) in a state where one past request and
\* one request that is not past name windows that are taken
C25_Witness ==
    /\ last.op = "book" /\ last.status = "PastDateTime" /\ last.http = 400
    /\ \E b \in ValidRequests : PastAndTaken(b) /\ OverlapsBooking(b)
    /\ \E b \in ValidRequests, n \in IdNumerals :
          /\ ~Before(StartOf(b), now)
          /\ book_appointment(b, now, Ledger, n).status = "SlotUnavailable"

====
